---- MODULE Spec2Model ----
(***************************************************************************)
(* clcat: a libp2p gossip node.  main() builds a QUIC/TCP transport, a     *)
(* gossipsub behaviour subscribed to the consensus-layer topics of the     *)
(* default fork, an mDNS behaviour, issues the listen and dial requests    *)
(* and then runs one select! loop over stdin lines and swarm events.       *)
(*                                                                         *)
(* The model follows src/src/main.rs statement by statement.  The calls    *)
(* into libp2p, tokio and futures are modelled by what those libraries do  *)
(* with the configuration main() gives them; each such place says so.      *)
(***************************************************************************)
EXTENDS Integers, Sequences, FiniteSets, TLC

\* ------------------------------------------------------------------ bounds

\* Longest --listen-address / --dial-address list tried.
MaxAddrs == 1

\* Remote peer ids (gossip peers and mDNS peers share the id space).
Peers == {"p1", "p2"}

\* Addresses an mDNS record can carry for a peer.
MdnsAddrs == {"m1", "m2"}

\* Longest list carried by one mDNS event.
MaxMdnsList == 2

\* stdin lines that decode as UTF-8, as byte sequences ("hi", "h").
Payloads == {<<104, 105>>, <<104>>}

\* Addresses that can be given on the command line.
ListenUniverse == <<"/ip4/127.0.0.1/tcp/4001", "/ip4/127.0.0.1/udp/4001/quic-v1">>
DialUniverse == <<"/ip4/10.0.0.9/tcp/4001", "/ip4/10.0.0.8/tcp/4001">>

\* ----------------------------------------------------------------- helpers

Range(s) == {s[i] : i \in DOMAIN s}

Prefix(s, n) == SubSeq(s, 1, n)

IsPrefix(s, t) == Len(s) <= Len(t) /\ s = SubSeq(t, 1, Len(s))

NoValue == "none"

\* ------------------------------------------------------------ error.rs

ERROR_CLIENT_INIT == 1

\* todo!() panics with this message.
todo == [panic |-> "not yet implemented"]

\* ClCatError::new; InnerClCatError has no variant, so inner is always None.
ClCatError_new(code, msg) == [code |-> code, msg |-> msg, inner |-> NoValue]

\* impl fmt::Display for ClCatError: "E{code}: {msg}" when inner is None.
ClCatError_Display(e) ==
    IF e.inner = NoValue
    THEN <<"E", e.code, ": ", e.msg>>
    ELSE <<"E", e.code, ": ", e.msg, " due to ", e.inner>>

\* The From impls `?` goes through: every one of them is todo!().
From_TransportError(value) == todo
From_multiaddr_Error(value) == todo
From_SubscriptionError(value) == todo
From_io_Error(value) == todo
From_ref_io_Error(value) == todo
From_str(value) == todo
From_noise_Error(value) == todo
From_DialError(value) == todo

IsPanic(conv) == "panic" \in DOMAIN conv

\* What the process ends with when `?` meets an Err whose conversion is conv:
\* a panic inside From::from (status 101, the panic message), or main
\* returning Err(e) (status 1, Rust prints the Debug form of e).
Propagate(conv) ==
    IF IsPanic(conv)
    THEN [kind |-> "panic", status |-> 101, error |-> NoValue, message |-> <<conv.panic>>,
          during |-> NoValue, cause |-> NoValue]
    ELSE [kind |-> "returned", status |-> 1, error |-> conv,
          message |-> <<"Error: ClCatError ", conv.code, conv.msg>>,
          during |-> NoValue, cause |-> NoValue]

NotExited ==
    [kind |-> "running", status |-> 0, error |-> NoValue, message |-> <<>>,
     during |-> NoValue, cause |-> NoValue]

\* ------------------------------------------------------- topic resolver

ForkNames == {"Base", "Altair", "Merge", "Capella"}

\* A table in which Merge repeats Altair's digest.
ForkDigest_from_MergeRepeatsAltair(value) ==
    CASE value = "Base" -> <<181, 48, 63, 42>>
      [] value = "Altair" -> <<175, 202, 171, 160>>
      [] value = "Merge" -> <<175, 202, 171, 160>>
      [] value = "Capella" -> <<187, 164, 218, 150>>

\* impl From<ForkName> for ForkDigest
ForkDigest_from(value) ==
    CASE value = "Base" -> <<181, 48, 63, 42>>
      [] value = "Altair" -> <<175, 202, 171, 160>>
      [] value = "Merge" -> <<74, 38, 197, 139>>
      [] value = "Capella" -> <<187, 164, 218, 150>>

default_fork == "Capella"

\* impl Default for ForkDigest
ForkDigest_default == ForkDigest_from(default_fork)

\* ForkName::previous_fork, as core_topics_to_subscribe walks it.
previous_fork(fork) ==
    CASE fork = "Base" -> NoValue
      [] fork = "Altair" -> "Base"
      [] fork = "Merge" -> "Altair"
      [] fork = "Capella" -> "Merge"

\* The gossip kinds each fork introduces.
fork_core_topics(fork) ==
    CASE fork = "Base" -> <<"beacon_block", "beacon_aggregate_and_proof",
                            "voluntary_exit", "proposer_slashing", "attester_slashing">>
      [] fork = "Altair" -> <<"sync_committee_contribution_and_proof">>
      [] fork = "Merge" -> <<>>
      [] fork = "Capella" -> <<"bls_to_execution_change">>

\* lighthouse_network::types::core_topics_to_subscribe: the kinds of the fork
\* followed by those of every earlier fork.
RECURSIVE core_topics_to_subscribe(_)
core_topics_to_subscribe(fork) ==
    IF previous_fork(fork) = NoValue
    THEN fork_core_topics(fork)
    ELSE fork_core_topics(fork) \o core_topics_to_subscribe(previous_fork(fork))

GossipEncoding_default == "ssz_snappy"

GossipTopic_new(kind, encoding, fork_digest) ==
    [kind |-> kind, encoding |-> encoding, fork_digest |-> fork_digest]

\* fn gossipsub_topics(): always the default fork, whatever fork is in use.
gossipsub_topics ==
    LET kinds == core_topics_to_subscribe(default_fork)
    IN  [i \in DOMAIN kinds |->
            GossipTopic_new(kinds[i], GossipEncoding_default, ForkDigest_default)]

\* ----------------------------------------------------------- message id

\* std's DefaultHasher over the bytes of message.data.  The 64-bit SipHash is
\* replaced by a positional fold that, like it, reads every byte and the
\* length; it has no collision among the payloads of this model.
RECURSIVE DefaultHasher(_)
DefaultHasher(data) ==
    IF data = <<>> THEN 7
    ELSE (DefaultHasher(Prefix(data, Len(data) - 1)) * 31 + data[Len(data)]) % 1000003

\* The id gossipsub computes by default: source and sequence number.
message_id_fn_BySourceAndSeqno(message) ==
    <<"id", message.source, message.sequence_number>>

\* let message_id_fn = |message| MessageId::from(hash(message.data).to_string())
message_id_fn(message) == <<"id", DefaultHasher(message.data)>>

\* A gossipsub::Message as the closure sees it.
Message(data, topic, source, seqno) ==
    [data |-> data, topic |-> topic, source |-> source, sequence_number |-> seqno]

LocalPeer == "local"

\* --------------------------------------------------- gossipsub configuration

\* Accepting every frame, signed or not.
validation_mode_None == "None"

\* .validation_mode(gossipsub::ValidationMode::Strict)
validation_mode == "Strict"

\* MessageAuthenticity::Signed(id_keys): every published frame is signed.
message_authenticity == "Signed"

\* What the router does with the signature field of an inbound frame.
SignatureAccepted(mode, signature) ==
    CASE mode = "Strict" -> signature = "valid"
      [] mode = "Permissive" -> signature \in {"valid", "missing"}
      [] OTHER -> TRUE

Signatures == {"valid", "invalid", "missing"}

\* ------------------------------------------------------------------ stdin

\* What LinesStream yields: nothing yet, a line, a failed read, the end.
NoLine == [kind |-> "none", value |-> <<>>]
OkLine(data) == [kind |-> "line", value |-> data]
ErrLine == [kind |-> "error", value |-> <<>>]
Eof == [kind |-> "eof", value |-> <<>>]

\* ------------------------------------------------------------------ state

VARIABLES
    pc,                \* where main() is: a startup step, "RUNNING", "TERMINATED"
    opts,              \* Opts: listen_address and dial_address
    subscriptions,     \* topics gossipsub.subscribe succeeded on, in order
    listeners,         \* addresses passed to swarm.listen_on, in order
    dials,             \* addresses passed to swarm.dial, in order
    pending_dials,     \* dials the swarm has not resolved yet
    explicit_peers,    \* gossipsub's explicit peer set
    last_discovery,    \* history: per peer id, the kind of the last mDNS event listing it
    discovered,        \* history: the (peer id, address) records discovered and not expired
    peer_topics,       \* connected peer -> topics it is subscribed to
    duplicate_cache,   \* gossipsub's cache of seen message ids
    stdin_ready,       \* what the stdin stream yields next, if anything
    stdin_terminated,  \* the fused stdin stream has yielded None
    got_logged,        \* payloads a "Got message" line was logged for
    out,               \* what the last handled loop event did
    exit               \* how the process ended

vars == <<pc, opts, subscriptions, listeners, dials, pending_dials, explicit_peers,
          last_discovery, discovered,
          peer_topics, duplicate_cache, stdin_ready, stdin_terminated, got_logged,
          out, exit>>

\* Most remote peers connected at a time.
MaxConnected == 1

Topics == Range(gossipsub_topics)

\* Topic sets a remote peer is seen subscribed to: every topic (another node
\* of this program) or only the last one.
RemoteSubscriptions == {Topics, {gossipsub_topics[Len(gossipsub_topics)]}}

AddrLists(universe) ==
    {Prefix(universe, n) : n \in 0..(IF MaxAddrs < Len(universe) THEN MaxAddrs ELSE Len(universe))}

Out(kind, arg, attempts, logs, relay) ==
    [kind |-> kind, arg |-> arg, attempts |-> attempts, logs |-> logs, relay |-> relay]

NoOut == Out("none", NoValue, <<>>, <<>>, {})

Init ==
    /\ pc = "noise"
    /\ opts \in [listen_address : AddrLists(ListenUniverse),
                 dial_address : AddrLists(DialUniverse)]
    /\ subscriptions = <<>>
    /\ listeners = <<>>
    /\ dials = <<>>
    /\ pending_dials = {}
    /\ explicit_peers = {}
    /\ last_discovery = [p \in Peers |-> "none"]
    /\ discovered = {}
    /\ peer_topics = [p \in Peers |-> {}]
    /\ duplicate_cache = {}
    /\ stdin_ready = NoLine
    /\ stdin_terminated = FALSE
    /\ got_logged = {}
    /\ out = NoOut
    /\ exit = NotExited

\* ------------------------------------------------------------------ startup

mdnsVars == <<explicit_peers, last_discovery, discovered>>
routerVars == <<mdnsVars, peer_topics, duplicate_cache>>
stdinVars == <<stdin_ready, stdin_terminated>>
startupVars == <<subscriptions, listeners, dials, pending_dials>>

\* `?` on an Err: the conversion runs, the process ends.
Terminate(conv, cause) ==
    /\ pc' = "TERMINATED"
    /\ exit' = [Propagate(conv) EXCEPT !.during = pc, !.cause = cause]

\* .authenticate((noise::Config::new(&id_keys))?)
NoiseConfig ==
    /\ pc = "noise"
    /\ \/ pc' = "gossipsub_config" /\ UNCHANGED exit
       \/ Terminate(From_noise_Error("noise"), "noise")
    /\ UNCHANGED <<opts, startupVars, routerVars, stdinVars, got_logged, out>>

\* gossipsub::ConfigBuilder::default()...build()?
GossipsubConfigBuild ==
    /\ pc = "gossipsub_config"
    /\ \/ pc' = "gossipsub_new" /\ UNCHANGED exit
       \/ Terminate(From_str("config"), "gossipsub_config")
    /\ UNCHANGED <<opts, startupVars, routerVars, stdinVars, got_logged, out>>

\* gossipsub::Behaviour::new(MessageAuthenticity::Signed(id_keys), config)?
GossipsubNew ==
    /\ pc = "gossipsub_new"
    /\ \/ pc' = "subscribe" /\ UNCHANGED exit
       \/ Terminate(From_str("behaviour"), "gossipsub_new")
    /\ UNCHANGED <<opts, startupVars, routerVars, stdinVars, got_logged, out>>

\* The subscribe loop leaving out the last topic of the list.
Subscribe_AllButLast ==
    /\ pc = "subscribe"
    /\ Len(subscriptions) < Len(gossipsub_topics) - 1
    /\ LET topic == gossipsub_topics[Len(subscriptions) + 1]
       IN  \/ /\ subscriptions' = Append(subscriptions, topic)
              /\ pc' = IF Len(subscriptions') = Len(gossipsub_topics) - 1
                       THEN "mdns" ELSE "subscribe"
              /\ UNCHANGED exit
           \/ /\ Terminate(From_SubscriptionError(topic), "subscribe")
              /\ UNCHANGED subscriptions
    /\ UNCHANGED <<opts, listeners, dials, pending_dials, routerVars, stdinVars,
                   got_logged, out>>

\* for topic in gossipsub_topics() { gossipsub.subscribe(&topic.into())?; }
Subscribe ==
    /\ pc = "subscribe"
    /\ Len(subscriptions) < Len(gossipsub_topics)
    /\ LET topic == gossipsub_topics[Len(subscriptions) + 1]
       IN  \/ /\ subscriptions' = Append(subscriptions, topic)
              /\ pc' = IF Len(subscriptions') = Len(gossipsub_topics)
                       THEN "mdns" ELSE "subscribe"
              /\ UNCHANGED exit
           \/ /\ Terminate(From_SubscriptionError(topic), "subscribe")
              /\ UNCHANGED subscriptions
    /\ UNCHANGED <<opts, listeners, dials, pending_dials, routerVars, stdinVars,
                   got_logged, out>>

\* The two listen requests made when no address is given.
DefaultListenAddrs_TcpOnly == <<"/ip4/0.0.0.0/tcp/0">>

DefaultListenAddrs == <<"/ip4/0.0.0.0/udp/0/quic-v1", "/ip4/0.0.0.0/tcp/0">>

NoAddressGiven == opts.listen_address = <<>> /\ opts.dial_address = <<>>

\* if opts.listen_address.is_empty() && opts.dial_address.is_empty() {..} else {..}
ListenTargets == IF NoAddressGiven THEN DefaultListenAddrs ELSE opts.listen_address

DialTargets == IF NoAddressGiven THEN <<>> ELSE opts.dial_address

\* The dial loop placed before the listen loop.
AfterRequests_DialFirst(ls, ds) ==
    IF Len(ds) < Len(DialTargets) THEN "dial"
    ELSE IF Len(ls) < Len(ListenTargets) THEN "listen"
    ELSE "RUNNING"

\* The statement main() reaches once ls listen requests and ds dials are made.
AfterRequests(ls, ds) ==
    IF Len(ls) < Len(ListenTargets) THEN "listen"
    ELSE IF Len(ds) < Len(DialTargets) THEN "dial"
    ELSE "RUNNING"

\* mdns::tokio::Behaviour::new(mdns::Config::default(), local_peer_id)?
MdnsNew ==
    /\ pc = "mdns"
    /\ \/ pc' = AfterRequests(listeners, dials) /\ UNCHANGED exit
       \/ Terminate(From_io_Error("mdns"), "mdns")
    /\ UNCHANGED <<opts, startupVars, routerVars, stdinVars, got_logged, out>>

\* swarm.listen_on(addr)?
ListenOn ==
    /\ pc = "listen"
    /\ LET addr == ListenTargets[Len(listeners) + 1]
       IN  /\ listeners' = Append(listeners, addr)
           /\ \/ pc' = AfterRequests(listeners', dials) /\ UNCHANGED exit
              \/ Terminate(From_TransportError(addr), "listen_on")
    /\ UNCHANGED <<opts, subscriptions, dials, pending_dials, routerVars, stdinVars,
                   got_logged, out>>

\* swarm.dial(addr)?: Ok leaves the attempt with the swarm, which reports its
\* outcome later as a swarm event; Err is returned at once.
Dial ==
    /\ pc = "dial"
    /\ LET addr == DialTargets[Len(dials) + 1]
       IN  /\ dials' = Append(dials, addr)
           /\ \/ /\ pending_dials' = pending_dials \cup {addr}
                 /\ pc' = AfterRequests(listeners, dials')
                 /\ UNCHANGED exit
              \/ /\ Terminate(From_DialError(addr), "dial")
                 /\ UNCHANGED pending_dials
    /\ UNCHANGED <<opts, subscriptions, listeners, routerVars, stdinVars, got_logged, out>>

\* ------------------------------------------------------------- the router

Recipients(topic, pt) == {p \in Peers : topic \in pt[p]}

\* gossipsub publish(topic, data): the id is computed, a message whose id is
\* in the duplicate cache is refused, one without a subscribed peer is
\* refused, any other is sent and its id cached.
publish(topic, data, seqno, cache, pt) ==
    LET id == message_id_fn(Message(data, topic, LocalPeer, seqno))
    IN  IF id \in cache
        THEN [ok |-> FALSE, value |-> "Duplicate", cache |-> cache, sent |-> {}]
        ELSE IF Recipients(topic, pt) = {}
        THEN [ok |-> FALSE, value |-> "InsufficientPeers", cache |-> cache, sent |-> {}]
        ELSE [ok |-> TRUE, value |-> id, cache |-> cache \cup {id},
              sent |-> Recipients(topic, pt)]

\* The id the router computes for an inbound frame: the closure gets the
\* decoded message, which has no field for the peer that forwarded it.
FrameId(frame) ==
    message_id_fn(Message(frame.data, frame.topic, frame.source, frame.sequence_number))

\* What the router does with an inbound frame before the loop sees anything:
\* a frame the validation mode refuses is dropped; a frame whose id is cached
\* is dropped; any other is cached, forwarded to the other peers of its topic
\* and surfaces as gossipsub::Event::Message.
on_receive(frame, cache, pt) ==
    LET id == FrameId(frame)
    IN  IF ~SignatureAccepted(validation_mode, frame.signature)
        THEN [accepted |-> FALSE, id |-> id, cache |-> cache, relay |-> {}]
        ELSE IF id \in cache
        THEN [accepted |-> FALSE, id |-> id, cache |-> cache, relay |-> {}]
        ELSE [accepted |-> TRUE, id |-> id, cache |-> cache \cup {id},
              relay |-> Recipients(frame.topic, pt) \ {frame.from, frame.source}]

\* ---------------------------------------------------------------- the loop

Log(level, what, detail) == [level |-> level, what |-> what, detail |-> detail]


LoopAcc(cache) ==
    [attempts |-> <<>>, logs |-> <<>>, cache |-> cache, left |-> FALSE, conv |-> todo]

\* The loop body with the publish result propagated instead of logged.
LoopStep_LeaveOnPublishError(acc, topic, line, pt) ==
    IF acc.left THEN acc
    ELSE IF line.kind # "line"
    THEN [acc EXCEPT !.left = TRUE, !.conv = From_ref_io_Error(line.value)]
    ELSE
      LET r == publish(topic, line.value, Len(acc.attempts) + 1, acc.cache, pt)
      IN  [acc EXCEPT !.attempts = Append(@, [topic |-> topic, ok |-> r.ok,
                                               value |-> r.value, sent |-> r.sent]),
                      !.left = ~r.ok,
                      !.cache = r.cache]

\* The loop body with the publish result dropped instead of logged.
LoopStep_IgnorePublishError(acc, topic, line, pt) ==
    IF acc.left THEN acc
    ELSE IF line.kind # "line"
    THEN [acc EXCEPT !.left = TRUE, !.conv = From_ref_io_Error(line.value)]
    ELSE
      LET r == publish(topic, line.value, Len(acc.attempts) + 1, acc.cache, pt)
      IN  [acc EXCEPT !.attempts = Append(@, [topic |-> topic, ok |-> r.ok,
                                               value |-> r.value, sent |-> r.sent]),
                      !.cache = r.cache]

\* One iteration of `for topic in gossipsub_topics()`:
\*   if let Err(e) = publish(topic, line.as_ref()?.as_bytes()) { error!(..) }
\* `?` on an Err line leaves the loop with the converted error.
LoopStep(acc, topic, line, pt) ==
    IF acc.left THEN acc
    ELSE IF line.kind # "line"
    THEN [acc EXCEPT !.left = TRUE, !.conv = From_ref_io_Error(line.value)]
    ELSE
      LET r == publish(topic, line.value, Len(acc.attempts) + 1, acc.cache, pt)
      IN  [acc EXCEPT !.attempts = Append(@, [topic |-> topic, ok |-> r.ok,
                                               value |-> r.value, sent |-> r.sent]),
                      !.logs = IF r.ok THEN @
                               ELSE Append(@, Log("error", "Publish error", r.value)),
                      !.cache = r.cache]

RECURSIVE PublishLoop(_, _, _, _)
PublishLoop(topics, line, cache, pt) ==
    IF topics = <<>> THEN LoopAcc(cache)
    ELSE CHOOSE after \in
            {LoopStep(acc, topics[Len(topics)], line, pt) :
                acc \in {PublishLoop(Prefix(topics, Len(topics) - 1), line, cache, pt)}} :
            TRUE

Running == pc = "RUNNING"

\* The stdin stream gets its next item: a line, a failed read, or the end.
StdinYields ==
    /\ Running
    /\ stdin_ready = NoLine
    /\ ~stdin_terminated
    /\ stdin_ready' \in {OkLine(d) : d \in Payloads} \cup {ErrLine, Eof}
    /\ UNCHANGED <<pc, opts, startupVars, routerVars, stdin_terminated, got_logged,
                   out, exit>>

\* line = stdin.select_next_some() => { for topic in gossipsub_topics() {..} }
\* with a line that was read.
HandleLine ==
    /\ Running
    /\ stdin_ready.kind = "line"
    /\ LET r == PublishLoop(gossipsub_topics, stdin_ready, duplicate_cache, peer_topics)
       IN  /\ duplicate_cache' = r.cache
           /\ out' = Out("stdin_line", stdin_ready.value, r.attempts, r.logs, {})
           /\ IF r.left
              THEN Terminate(r.conv, "stdin_line")
              ELSE UNCHANGED <<pc, exit>>
    /\ stdin_ready' = NoLine
    /\ UNCHANGED <<opts, startupVars, mdnsVars, peer_topics, stdin_terminated,
                   got_logged>>

\* The same branch with a line whose read failed (an I/O error, bytes that are
\* not UTF-8).
HandleLineError ==
    /\ Running
    /\ stdin_ready.kind = "error"
    /\ LET r == PublishLoop(gossipsub_topics, stdin_ready, duplicate_cache, peer_topics)
       IN  /\ duplicate_cache' = r.cache
           /\ out' = Out("stdin_error", NoValue, r.attempts, r.logs, {})
           /\ IF r.left
              THEN Terminate(r.conv, "stdin_error")
              ELSE UNCHANGED <<pc, exit>>
    /\ stdin_ready' = NoLine
    /\ UNCHANGED <<opts, startupVars, mdnsVars, peer_topics, stdin_terminated,
                   got_logged>>

\* The stdin branch polled when the stream ends: Fuse yields None and is
\* terminated from now on, select_next_some stays pending.
PollStdinEnd ==
    /\ Running
    /\ stdin_ready.kind = "eof"
    /\ stdin_ready' = NoLine
    /\ stdin_terminated' = TRUE
    /\ UNCHANGED <<pc, opts, startupVars, routerVars, got_logged, out, exit>>

\* tokio's select! polls the stdin branch again whatever its stream's state;
\* select_next_some asserts that its stream is not terminated.
PollStdinTerminated ==
    /\ Running
    /\ stdin_terminated
    /\ pc' = "TERMINATED"
    /\ exit' = [kind |-> "panic", status |-> 101, error |-> NoValue,
                message |-> <<"SelectNextSome polled after terminated">>,
                during |-> pc, cause |-> "stdin_end"]
    /\ UNCHANGED <<opts, startupVars, routerVars, stdinVars, got_logged, out>>

\* Sequence numbers an inbound frame can carry.
SeqNos == {1, 2}

\* Topics inbound frames arrive on: the first and the last of the list.
FrameTopics == {gossipsub_topics[1], gossipsub_topics[Len(gossipsub_topics)]}

Frames ==
    [data : Payloads, topic : FrameTopics, source : Peers, from : Peers,
     sequence_number : {1}, signature : Signatures]

\* The lists an mDNS event can carry: (peer id, address) pairs.
MdnsLists ==
    UNION {[1..n -> Peers \X MdnsAddrs] : n \in 1..MaxMdnsList}

\* A loop that stops after the first entry of the list.
AddExplicitPeers_HeadOnly(list, peers) ==
    IF list = <<>> THEN peers ELSE peers \cup {Head(list)[1]}

\* for (peer_id, _multiaddr) in list { info!(..); add_explicit_peer(&peer_id) }
RECURSIVE AddExplicitPeers(_, _)
AddExplicitPeers(list, peers) ==
    IF list = <<>> THEN peers
    ELSE AddExplicitPeers(Tail(list), peers \cup {Head(list)[1]})

\* A removal that keeps a peer while another of its addresses is discovered.
RemoveExplicitPeers_KeepWhileAddressed(list, peers) ==
    peers \ {e[1] : e \in {x \in Range(list) :
                \A y \in discovered \ Range(list) : y[1] # x[1]}}

\* A removal that empties the set.
RemoveExplicitPeers_Clear(list, peers) == IF list = <<>> THEN peers ELSE {}

\* for (peer_id, _multiaddr) in list { info!(..); remove_explicit_peer(&peer_id) }
RECURSIVE RemoveExplicitPeers(_, _)
RemoveExplicitPeers(list, peers) ==
    IF list = <<>> THEN peers
    ELSE RemoveExplicitPeers(Tail(list), peers \ {Head(list)[1]})

PeerLogs(what, list) == [i \in DOMAIN list |-> Log("info", what, list[i][1])]

\* SwarmEvent::Behaviour(Mdns(mdns::Event::Discovered(list)))
MdnsDiscovered(list) ==
    /\ Running
    /\ explicit_peers' = AddExplicitPeers(list, explicit_peers)
    /\ last_discovery' = [p \in Peers |->
            IF p \in {e[1] : e \in Range(list)} THEN "arrived" ELSE last_discovery[p]]
    /\ discovered' = discovered \cup Range(list)
    /\ out' = Out("mdns_discovered", NoValue, <<>>,
                  PeerLogs("mDNS discovered a new peer", list), {})
    /\ UNCHANGED <<pc, opts, startupVars, peer_topics, duplicate_cache, stdinVars,
                   got_logged, exit>>

\* SwarmEvent::Behaviour(Mdns(mdns::Event::Expired(list)))
MdnsExpired(list) ==
    /\ Running
    /\ explicit_peers' = RemoveExplicitPeers(list, explicit_peers)
    /\ last_discovery' = [p \in Peers |->
            IF p \in {e[1] : e \in Range(list)} THEN "expired" ELSE last_discovery[p]]
    /\ discovered' = discovered \ Range(list)
    /\ out' = Out("mdns_expired", NoValue, <<>>,
                  PeerLogs("mDNS discover peer has expired", list), {})
    /\ UNCHANGED <<pc, opts, startupVars, peer_topics, duplicate_cache, stdinVars,
                   got_logged, exit>>

\* The message arm making the forwarding peer an explicit peer.
GossipFrame_AddsForwarder(frame) ==
    /\ Running
    /\ LET r == on_receive(frame, duplicate_cache, peer_topics)
       IN  /\ duplicate_cache' = r.cache
           /\ got_logged' = IF r.accepted THEN got_logged \cup {frame.data}
                            ELSE got_logged
           /\ explicit_peers' = IF r.accepted THEN explicit_peers \cup {frame.from}
                                ELSE explicit_peers
           /\ out' = Out("gossip_frame",
                         [signature |-> frame.signature, data |-> frame.data],
                         <<>>,
                         IF r.accepted
                         THEN <<Log("info", "Got message", <<frame.data, r.id, frame.from>>)>>
                         ELSE <<>>,
                         r.relay)
    /\ UNCHANGED <<pc, opts, startupVars, last_discovery, discovered, peer_topics,
                   stdinVars, exit>>

\* A frame reaches the router; when the router accepts it the loop gets
\* SwarmEvent::Behaviour(Gossipsub(Event::Message {..})) and logs it.
GossipFrame(frame) ==
    /\ Running
    /\ LET r == on_receive(frame, duplicate_cache, peer_topics)
       IN  /\ duplicate_cache' = r.cache
           /\ got_logged' = IF r.accepted THEN got_logged \cup {frame.data}
                            ELSE got_logged
           /\ out' = Out("gossip_frame",
                         [signature |-> frame.signature, data |-> frame.data],
                         <<>>,
                         IF r.accepted
                         THEN <<Log("info", "Got message", <<frame.data, r.id, frame.from>>)>>
                         ELSE <<>>,
                         r.relay)
    /\ UNCHANGED <<pc, opts, startupVars, mdnsVars, peer_topics, stdinVars, exit>>

\* The address a listener reports once bound to the requested one.
Bound(addr) == <<"bound", addr>>

\* SwarmEvent::NewListenAddr { address, .. }
NewListenAddr(addr) ==
    /\ Running
    /\ addr \in Range(listeners)
    /\ out' = Out("new_listen_addr", Bound(addr), <<>>,
                  <<Log("info", "Local node is listening on", Bound(addr))>>, {})
    /\ UNCHANGED <<pc, opts, startupVars, routerVars, stdinVars, got_logged, exit>>

\* `_ => {}`: a pending dial fails (SwarmEvent::OutgoingConnectionError).
OutgoingConnectionError(addr) ==
    /\ Running
    /\ addr \in pending_dials
    /\ pending_dials' = pending_dials \ {addr}
    /\ out' = Out("outgoing_connection_error", addr, <<>>, <<>>, {})
    /\ UNCHANGED <<pc, opts, subscriptions, listeners, dials, routerVars, stdinVars,
                   got_logged, exit>>

\* `_ => {}`: a pending dial succeeds (SwarmEvent::ConnectionEstablished).
ConnectionEstablished(addr) ==
    /\ Running
    /\ addr \in pending_dials
    /\ pending_dials' = pending_dials \ {addr}
    /\ out' = Out("connection_established", addr, <<>>, <<>>, {})
    /\ UNCHANGED <<pc, opts, subscriptions, listeners, dials, routerVars, stdinVars,
                   got_logged, exit>>

\* `_ => {}`: a connected peer announces its subscriptions
\* (gossipsub::Event::Subscribed).
PeerSubscribed(p, topics) ==
    /\ Running
    /\ peer_topics[p] # topics
    /\ Cardinality({q \in Peers : peer_topics[q] # {}} \cup {p}) <= MaxConnected
    /\ peer_topics' = [peer_topics EXCEPT ![p] = topics]
    /\ out' = Out("peer_subscribed", p, <<>>, <<>>, {})
    /\ UNCHANGED <<pc, opts, startupVars, mdnsVars, duplicate_cache, stdinVars,
                   got_logged, exit>>

\* `_ => {}`: a peer's connection closes (SwarmEvent::ConnectionClosed).
ConnectionClosed(p) ==
    /\ Running
    /\ peer_topics[p] # {}
    /\ peer_topics' = [peer_topics EXCEPT ![p] = {}]
    /\ out' = Out("connection_closed", p, <<>>, <<>>, {})
    /\ UNCHANGED <<pc, opts, startupVars, mdnsVars, duplicate_cache, stdinVars,
                   got_logged, exit>>

\* An entry of the duplicate cache reaches the cache's time to live
\* (duplicate_cache_time is left at its default by the ConfigBuilder call).
DuplicateCacheExpires(id) ==
    /\ Running
    /\ id \in duplicate_cache
    /\ duplicate_cache' = duplicate_cache \ {id}
    /\ UNCHANGED <<pc, opts, startupVars, mdnsVars, peer_topics, stdinVars,
                   got_logged, out, exit>>

Startup ==
    \/ NoiseConfig
    \/ GossipsubConfigBuild
    \/ GossipsubNew
    \/ Subscribe
    \/ MdnsNew
    \/ ListenOn

StdinBranch ==
    \/ HandleLine
    \/ HandleLineError
    \/ PollStdinEnd
    \/ PollStdinTerminated

Discovery ==
    \/ \E list \in MdnsLists : MdnsDiscovered(list)
    \/ \E list \in MdnsLists : MdnsExpired(list)

Gossip ==
    \/ \E frame \in Frames : GossipFrame(frame)
    \/ \E p \in Peers : \E topics \in RemoteSubscriptions : PeerSubscribed(p, topics)
    \/ \E p \in Peers : ConnectionClosed(p)
    \/ \E id \in duplicate_cache : DuplicateCacheExpires(id)

Listeners == \E addr \in Range(listeners) : NewListenAddr(addr)

Dialling ==
    \/ Dial
    \/ \E addr \in pending_dials : OutgoingConnectionError(addr)
    \/ \E addr \in pending_dials : ConnectionEstablished(addr)

\* The node started without addresses: startup, then the loop on stdin,
\* gossip and listener events.
InitNoAddress == Init /\ NoAddressGiven

Next == Startup \/ StdinYields \/ StdinBranch \/ Gossip \/ Listeners

Spec == InitNoAddress /\ [][Next]_vars

\* select! picks among its ready branches at random, so a ready stdin branch
\* is not passed over forever.
FairSpec == Spec /\ WF_vars(StdinBranch)

\* The node started with any address lists: startup with its listen and dial
\* requests, then the loop on stdin, listener and dial events.
NextAddresses == Startup \/ Dialling \/ Listeners \/ StdinYields \/ StdinBranch

SpecAddresses == Init /\ [][NextAddresses]_vars

FairSpecAddresses == SpecAddresses /\ WF_vars(StdinBranch)

\* The swarm branch of select! on the outcome of a pending dial.
DialOutcome ==
    \/ \E addr \in pending_dials : OutgoingConnectionError(addr)
    \/ \E addr \in pending_dials : ConnectionEstablished(addr)

\* select! passes over neither of its two branches forever while it is ready.
FairSpecSelect == SpecAddresses /\ WF_vars(StdinBranch) /\ WF_vars(DialOutcome)

\* The node started without addresses: startup, then the loop on stdin,
\* mDNS and listener events.
NextDiscovery == Startup \/ StdinYields \/ StdinBranch \/ Discovery \/ Listeners

SpecDiscovery == InitNoAddress /\ [][NextDiscovery]_vars

\* The events of the swarm branch that come from connected peers.
PeerEvents ==
    \/ \E frame \in Frames : GossipFrame(frame)
    \/ \E p \in Peers : \E topics \in RemoteSubscriptions : PeerSubscribed(p, topics)
    \/ \E p \in Peers : ConnectionClosed(p)

\* The node started without addresses: startup, then the loop on the events
\* of the swarm branch alone (mDNS, peers, listeners), within the lifetime of
\* the duplicate cache's entries.
NextSwarm == Startup \/ Discovery \/ PeerEvents \/ Listeners

SpecSwarm == InitNoAddress /\ [][NextSwarm]_vars

\* --------------------------------------------------------- message ids alone

\* The frames the id closure is applied to, two at a time.
IdFrames ==
    [data : Payloads, topic : FrameTopics, source : Peers, from : Peers,
     sequence_number : SeqNos, signature : {"valid"}]

\* The closure applied to two frames.
MessageIds(a, b) ==
    /\ out' = [kind |-> "message_ids", a |-> a, b |-> b,
               id_a |-> FrameId(a), id_b |-> FrameId(b)]
    /\ UNCHANGED <<pc, opts, startupVars, routerVars, stdinVars, got_logged, exit>>

\* ForkDigest::from applied to two fork names, and gossipsub_topics() called
\* while the first of them is the fork in use.  gossipsub_topics takes no
\* argument: the fork in use does not reach it.
ForkTopics(fork, other) ==
    /\ out' = [kind |-> "fork_topics", fork |-> fork, other |-> other,
               digest |-> ForkDigest_from(fork),
               digest_other |-> ForkDigest_from(other),
               topics |-> gossipsub_topics]
    /\ UNCHANGED <<pc, opts, startupVars, routerVars, stdinVars, got_logged, exit>>

\* The body of the Discovered arm and then the body of the Expired arm, each
\* for a list of the one peer id, applied to an explicit-peer set.
AddThenRemove(peers, peer, addr) ==
    /\ out' = [kind |-> "add_remove", before |-> peers, peer |-> peer,
               added |-> AddExplicitPeers(<<<<peer, addr>>>>, peers),
               after |-> RemoveExplicitPeers(<<<<peer, addr>>>>,
                            AddExplicitPeers(<<<<peer, addr>>>>, peers))]
    /\ UNCHANGED <<pc, opts, startupVars, routerVars, stdinVars, got_logged, exit>>

NextId ==
    \/ \E a \in IdFrames : \E b \in IdFrames : MessageIds(a, b)
    \/ \E peers \in SUBSET Peers : \E peer \in Peers : \E addr \in MdnsAddrs :
            AddThenRemove(peers, peer, addr)
    \/ \E fork \in ForkNames : \E other \in ForkNames : ForkTopics(fork, other)

SpecId == InitNoAddress /\ [][NextId]_vars

\* ------------------------------------------------------------------ claims

FailedAttempts(attempts) == SelectSeq(attempts, LAMBDA a : ~a.ok)

\* C1: handling one stdin line makes exactly one publish attempt per resolved
\* topic, in the order of the list; every failed attempt is logged, the
\* attempts after it are still made and the handler does not end the loop.
C1_OneAttemptPerTopic ==
    out.kind = "stdin_line" =>
        /\ Len(out.attempts) = Len(gossipsub_topics)
        /\ \A i \in DOMAIN out.attempts : out.attempts[i].topic = gossipsub_topics[i]
        /\ Len(out.logs) = Len(FailedAttempts(out.attempts))
        /\ \A i \in DOMAIN out.logs :
              out.logs[i] = Log("error", "Publish error", FailedAttempts(out.attempts)[i].value)
        /\ exit.cause # "stdin_line"

\* A line was handled whose publish failed on the first topics and succeeded
\* on a later one.
C1_Witness ==
    /\ pc = "RUNNING"
    /\ out.kind = "stdin_line"
    /\ \E i, j \in DOMAIN out.attempts : i < j /\ ~out.attempts[i].ok /\ out.attempts[j].ok

\* C2: once stdin has reached its end the loop is still running.
C2_RunningAfterStdinEnd == stdin_terminated => pc = "RUNNING"

\* C3: no error met while the loop is running ends it; here the error is a
\* failed read of a stdin line.
C3_ReadErrorKeepsLoop == ~(pc = "TERMINATED" /\ exit.during = "RUNNING" /\ exit.cause = "stdin_error")

NoPeerConnected == \A p \in Peers : peer_topics[p] = {}

LineHandledStep == stdin_ready.kind = "line" /\ stdin_ready' = NoLine

\* C4: a line published while no peer is connected on any topic fails on
\* every topic and leaves the loop running, and every line that is available
\* is eventually handled.
C4_NoPeersPublishFails ==
    /\ [][(LineHandledStep /\ NoPeerConnected) =>
            /\ out'.kind = "stdin_line"
            /\ Len(out'.attempts) = Len(gossipsub_topics)
            /\ \A i \in DOMAIN out'.attempts : ~out'.attempts[i].ok
            /\ pc' = "RUNNING"]_vars
    /\ \A d \in Payloads :
          (pc = "RUNNING" /\ stdin_ready = OkLine(d))
              ~> (stdin_ready = NoLine /\ out.kind = "stdin_line" /\ out.arg = d)

\* A line failed on every topic for want of peers, the loop runs and the next
\* line is available.
C4_Witness ==
    /\ pc = "RUNNING"
    /\ out.kind = "stdin_line"
    /\ \A i \in DOMAIN out.attempts : out.attempts[i].value = "InsufficientPeers"
    /\ stdin_ready.kind = "line"

\* C5: a startup failure ends the process with a non-zero status and an error
\* value that has a code and a message, shown as "E<code>: <message>".
C5_StartupFailureIsCoded ==
    (pc = "TERMINATED" /\ exit.during # "RUNNING") =>
        /\ exit.status # 0
        /\ exit.kind = "returned"
        /\ exit.error.code \in Nat
        /\ exit.error.msg # ""
        /\ exit.message = ClCatError_Display(exit.error)

\* C6: a dial to an address nobody answers on does not end the process and
\* the failure is logged: the handler of the failed dial leaves a log line and
\* does not end the loop.
C6_DialFailureLogged ==
    out.kind = "outgoing_connection_error" =>
        (out.logs # <<>> /\ exit.cause \notin {"dial", "outgoing_connection_error"})

\* C7: with no address given, startup asks for exactly the QUIC listener and
\* the TCP listener on ephemeral ports of all interfaces, in that order, dials
\* nothing, and every address reported bound is logged.
C7_DefaultListeners ==
    NoAddressGiven =>
        /\ IsPrefix(listeners, <<"/ip4/0.0.0.0/udp/0/quic-v1", "/ip4/0.0.0.0/tcp/0">>)
        /\ (pc = "RUNNING" \/ exit.during = "RUNNING") =>
              listeners = <<"/ip4/0.0.0.0/udp/0/quic-v1", "/ip4/0.0.0.0/tcp/0">>
        /\ dials = <<>>
        /\ pending_dials = {}
        /\ out.kind = "new_listen_addr" =>
              out.logs = <<Log("info", "Local node is listening on", out.arg)>>

\* Started without addresses, both listeners requested, a bound address logged.
C7_Witness ==
    /\ NoAddressGiven
    /\ pc = "RUNNING"
    /\ Len(listeners) = 2
    /\ out.kind = "new_listen_addr"
    /\ out.arg = Bound("/ip4/0.0.0.0/udp/0/quic-v1")

FrameAcceptedStep ==
    /\ out'.kind = "gossip_frame"
    /\ out'.logs # <<>>
    /\ duplicate_cache' # duplicate_cache
    /\ duplicate_cache \subseteq duplicate_cache'

\* C8: at most one received-message line is logged per payload: a frame is
\* not accepted when a frame with the same payload was accepted before.
C8_OneLogPerPayload ==
    [][FrameAcceptedStep => out'.arg.data \notin got_logged]_vars

\* C9: a frame whose signature is missing or invalid is neither logged nor
\* relayed.
C9_UnsignedDropped ==
    (out.kind = "gossip_frame" /\ out.arg.signature # "valid") =>
        (out.logs = <<>> /\ out.relay = {})

\* A badly signed frame arrived while a peer was subscribed to every topic.
C9_Witness ==
    /\ pc = "RUNNING"
    /\ out.kind = "gossip_frame"
    /\ out.arg.signature = "invalid"
    /\ \E p \in Peers : peer_topics[p] = Topics

\* C10: two messages with the same payload bytes get the same id, whatever
\* their topics, senders, sequence numbers and forwarding peers.
C10_IdFromPayloadOnly ==
    (out.kind = "message_ids" /\ out.a.data = out.b.data) => out.id_a = out.id_b

\* Two frames with the same payload and different topic, sender and
\* forwarding peer.
C10_Witness ==
    /\ out.kind = "message_ids"
    /\ out.a.data = out.b.data
    /\ out.a.topic # out.b.topic
    /\ out.a.source # out.b.source
    /\ out.a.from # out.b.from
    /\ out.id_a = out.id_b


C12_AddRemoveRoundTrip ==
    out.kind = "add_remove" => out.after = out.before

\* C12, amended: for every explicit-peer set and every peer id that is not in
\* the set, adding the peer id and then removing it leaves the set as it was
\* before the add; for a peer id already in the set the result is the set
\* without it.
C12_AddRemoveOfAbsentPeer ==
    out.kind = "add_remove" =>
        /\ out.peer \in out.added
        /\ out.peer \notin out.before => out.after = out.before
        /\ out.peer \in out.before => out.after = out.before \ {out.peer}

C12_Witness ==
    /\ out.kind = "add_remove"
    /\ out.before = {"p2"}
    /\ out.peer = "p1"
    /\ out.added = {"p1", "p2"}
    /\ out.after = {"p2"}

Reverse(s) == [i \in DOMAIN s |-> s[Len(s) + 1 - i]]

DeliveredTopics(attempts) ==
    {attempts[i].topic : i \in {j \in DOMAIN attempts : attempts[j].ok}}

PeersOnEveryTopic == \A t \in Topics : Recipients(t, peer_topics) # {}

\* C13: when every topic has a reachable peer, the set of topics on which a
\* handled line is delivered is the same whether the topic sequence is
\* walked in its own order or in the opposite order.
C13_DeliveryOrderIndependent ==
    [][(LineHandledStep /\ PeersOnEveryTopic) =>
          DeliveredTopics(out'.attempts) =
              DeliveredTopics(PublishLoop(Reverse(gossipsub_topics), stdin_ready,
                                          duplicate_cache, peer_topics).attempts)]_vars

\* The peer ids an mDNS arm logged, one line per entry of its list.
Listed(logs) == {logs[i].detail : i \in DOMAIN logs}

\* C14: the explicit-peer set is the set of peer ids whose most recent
\* discovery event is a Discovered one; a Discovered event adds every peer it
\* lists, an Expired event removes every peer it lists, and a step that is
\* not the handling of one of the two leaves the set as it was.
C14_ExplicitPeersFollowDiscovery ==
    /\ [](explicit_peers = {p \in Peers : last_discovery[p] = "arrived"})
    /\ [][(out' # out /\ out'.kind = "mdns_discovered") =>
            explicit_peers' = explicit_peers \cup Listed(out'.logs)]_vars
    /\ [][(out' # out /\ out'.kind = "mdns_expired") =>
            explicit_peers' = explicit_peers \ Listed(out'.logs)]_vars
    /\ [][(out'.kind \notin {"mdns_discovered", "mdns_expired"} \/ out' = out) =>
            explicit_peers' = explicit_peers]_vars

\* Two peers have arrived, one of them has expired since.
C14_Witness ==
    /\ out.kind = "mdns_expired"
    /\ Listed(out.logs) = {"p1"}
    /\ last_discovery = [p \in Peers |-> IF p = "p1" THEN "expired" ELSE "arrived"]
    /\ <<"p2", "m1">> \in discovered
    /\ explicit_peers = {"p2"}

\* C15: neither source starves: a line that is available to the running loop
\* is eventually handled although listener events stay available, and the
\* outcome of a pending dial is eventually handled although lines keep
\* arriving.
C15_NoSourceStarves ==
    /\ \A d \in Payloads :
          (pc = "RUNNING" /\ stdin_ready = OkLine(d)) ~> (stdin_ready # OkLine(d))
    /\ \A addr \in Range(DialUniverse) :
          (pc = "RUNNING" /\ addr \in pending_dials) ~> (addr \notin pending_dials)

\* The step handled an event of one of the three kinds: a listener address,
\* an inbound message the router accepted, an event of the `_` arm.
FrameStep ==
    /\ out' # out
    /\ \/ out'.kind \in {"new_listen_addr", "peer_subscribed", "connection_closed"}
       \/ FrameAcceptedStep

\* C17: handling a new listen address, an accepted inbound gossip message or
\* a swarm event the loop does not recognise leaves the explicit-peer set and
\* the subscribed-topic set as they were, and the handler makes no publish
\* attempt.
C17_FrameOfQuietEvents ==
    [][FrameStep =>
          /\ explicit_peers' = explicit_peers
          /\ subscriptions' = subscriptions
          /\ out'.attempts = <<>>]_vars

\* Such an event was handled while the explicit-peer set was not empty.
C17_Witness ==
    /\ out.kind = "gossip_frame"
    /\ out.logs # <<>>
    /\ explicit_peers = {"p1"}
    /\ Len(subscriptions) = Len(gossipsub_topics)

AttemptedTopics(attempts) == {attempts[i].topic : i \in DOMAIN attempts}

\* C18: while the loop runs the subscribed topics are exactly the topics
\* resolved for the fork fixed at startup, a step of the running loop does
\* not change them, and a handled line is published to exactly the
\* subscribed topics.
C18_SubscriptionsFixed ==
    /\ [](pc = "RUNNING" =>
            /\ Range(subscriptions) = Range(gossipsub_topics)
            /\ \A t \in Range(subscriptions) :
                    t.fork_digest = ForkDigest_from(default_fork))
    /\ [][pc = "RUNNING" => subscriptions' = subscriptions]_vars
    /\ [](out.kind = "stdin_line" => AttemptedTopics(out.attempts) = Range(subscriptions))

\* A line was handled by the running loop.
C18_Witness ==
    /\ pc = "RUNNING"
    /\ out.kind = "stdin_line"
    /\ Cardinality(AttemptedTopics(out.attempts)) = 7
    /\ Cardinality(Range(subscriptions)) = 7

\* The loop has handled an event or been offered a line.
LoopEntered == out # NoOut \/ stdin_ready # NoLine \/ stdin_terminated

\* C19: startup is ordered: every topic is subscribed before the first listen
\* request, every listen request is made before the first dial request, and
\* the loop handles nothing before all of them succeeded; when an address is
\* given the two default listeners are not requested, so a node given only
\* dial addresses requests no listener.
C19_StartupOrder ==
    /\ listeners # <<>> => subscriptions = gossipsub_topics
    /\ dials # <<>> => listeners = opts.listen_address
    /\ LoopEntered =>
          /\ subscriptions = gossipsub_topics
          /\ listeners = IF opts.listen_address = <<>> /\ opts.dial_address = <<>>
                         THEN <<"/ip4/0.0.0.0/udp/0/quic-v1", "/ip4/0.0.0.0/tcp/0">>
                         ELSE opts.listen_address
          /\ dials = opts.dial_address
          /\ exit.cause \notin {"subscribe", "mdns", "listen_on", "dial"}
    /\ (opts.listen_address # <<>> \/ opts.dial_address # <<>>) =>
          /\ IsPrefix(listeners, opts.listen_address)
          /\ Range(listeners) \cap
                {"/ip4/0.0.0.0/udp/0/quic-v1", "/ip4/0.0.0.0/tcp/0"} = {}
    /\ (opts.listen_address = <<>> /\ opts.dial_address # <<>>) => listeners = <<>>

\* A node given one listen and one dial address has entered its loop.
C19_Witness ==
    /\ pc = "RUNNING"
    /\ LoopEntered
    /\ opts.listen_address # <<>>
    /\ opts.dial_address # <<>>
    /\ listeners = opts.listen_address
    /\ dials = opts.dial_address

\* C20: the explicit-peer set is keyed by peer id alone: once an Expired
\* event has listed a peer, under whichever of its addresses, the peer is
\* not in the set, although other addresses of it are still discovered.
C20_ExpiredAddressRemovesPeer ==
    out.kind = "mdns_expired" => Listed(out.logs) \cap explicit_peers = {}

\* A peer discovered at two addresses is gone from the set after the expiry
\* of one of them; the other address is still discovered.
C20_Witness ==
    /\ out.kind = "mdns_expired"
    /\ out.logs = PeerLogs("mDNS discover peer has expired", <<<<"p1", "m1">>>>)
    /\ <<"p1", "m2">> \in discovered
    /\ <<"p1", "m1">> \notin discovered
    /\ "p1" \notin explicit_peers

====
